---- MODULE Spec2Model ----
(***************************************************************************)
(* The movie catalog: the SQL store (movie_storage_sql.py) and the CLI     *)
(* commands that call it (Filmprojekt.py).                                 *)
(*                                                                         *)
(* The movies table is a bag of rows: the function maps a row to the       *)
(* number of copies the table holds, so that the UNIQUE constraint on      *)
(* title is something INSERT has to enforce, not a property of the         *)
(* representation.  The surrogate id column is selected by no statement    *)
(* of the source and is not carried.                                       *)
(*                                                                         *)
(* Strings the code converts (titles, numbers read from text) are          *)
(* sequences of one-character strings; lower(), strip(), int() and         *)
(* float() are computed on them.  An optional value is the empty set       *)
(* (Python's None / an absent JSON key) or a singleton.                    *)
(***************************************************************************)
EXTENDS Integers, Sequences, FiniteSets, TLC

VARIABLES table, last

vars == <<table, last>>

----------------------------------------------------------------------------
(* Optional values *)

None == {}

Some(x) == {x}

Get(o) == CHOOSE x \in o : TRUE

----------------------------------------------------------------------------
(* Strings *)

LowerChar(c) ==
    CASE c = "U" -> "u"
      [] c = "P" -> "p"
      [] c = "G" -> "g"
      [] c = "Y" -> "y"
      [] OTHER -> c

\* str.lower()
Lower(s) == [i \in DOMAIN s |-> LowerChar(s[i])]

IsSpace(c) == c = " "

RECURSIVE LStrip(_)
LStrip(s) ==
    IF s # <<>> /\ IsSpace(Head(s)) THEN LStrip(Tail(s)) ELSE s

RECURSIVE RStrip(_)
RStrip(s) ==
    IF s # <<>> /\ IsSpace(s[Len(s)]) THEN RStrip(SubSeq(s, 1, Len(s) - 1)) ELSE s

\* str.strip()
Strip(s) == RStrip(LStrip(s))

\* re.search(r"\w", s): a letter, a digit or an underscore somewhere in s
IsWordChar(c) ==
    c \in {"U", "u", "P", "p", "G", "g", "o", "x", "N", "A", "Y", "y", "n", "_",
           "0", "1", "2", "7", "8", "9"}

HasWordChar(s) == \E i \in DOMAIN s : IsWordChar(s[i])

Digits == {"0", "1", "2", "7", "8", "9"}

DigitValue(c) ==
    CASE c = "0" -> 0
      [] c = "1" -> 1
      [] c = "2" -> 2
      [] c = "7" -> 7
      [] c = "8" -> 8
      [] c = "9" -> 9

RECURSIVE DigitsValue(_, _)
DigitsValue(s, acc) ==
    IF s = <<>> THEN acc ELSE DigitsValue(Tail(s), acc * 10 + DigitValue(Head(s)))

\* int(s) and, for the integer literals the model feeds it, float(s):
\* surrounding blanks and one leading minus sign are accepted, anything
\* else that is not a digit is a ValueError (None).
ParseNumber(raw) ==
    LET s == Strip(raw)
        neg == s # <<>> /\ Head(s) = "-"
        digits == IF neg THEN Tail(s) ELSE s
    IN  IF digits = <<>> \/ \E i \in DOMAIN digits : digits[i] \notin Digits
        THEN None
        ELSE Some(IF neg THEN 0 - DigitsValue(digits, 0) ELSE DigitsValue(digits, 0))

\* the one character U+2013, the dash of a range of years
EnDash == "en-dash"

\* s.split(sep)[0]
RECURSIVE BeforeFirst(_, _)
BeforeFirst(s, sep) ==
    IF s = <<>> \/ Head(s) = sep THEN <<>>
    ELSE <<Head(s)>> \o BeforeFirst(Tail(s), sep)

TUp == <<"U", "p">>

Tup == <<"u", "p">>

TGo == <<"G", "o">>

TBlank == <<" ">>

TEmpty == <<>>

\* titles handed to the store
Titles == {TEmpty, TBlank, TUp, Tup}

Years == {1999, 2010}

Ratings == {None, Some(8), Some(11)}

Posters == {None, Some("p.jpg")}

Faults == BOOLEAN

----------------------------------------------------------------------------
(* The movies table *)

Row(title, year, rating, poster_url) ==
    [title |-> title, year |-> year, rating |-> rating, poster_url |-> poster_url]

EmptyTable == [r \in {} |-> 0]

TitlesOf(tbl) == {r.title : r \in DOMAIN tbl}

\* WHERE title = :title  (TEXT compared with the BINARY collation)
RowsWhereNoCase(tbl, title) ==
    {r \in DOMAIN tbl : Lower(r.title) = Lower(title)}

RowsWhere(tbl, title) == {r \in DOMAIN tbl : r.title = title}

RECURSIVE Copies(_, _)
Copies(tbl, rows) ==
    IF rows = {} THEN 0
    ELSE LET r == CHOOSE x \in rows : TRUE
         IN  tbl[r] + Copies(tbl, rows \ {r})

\* title TEXT UNIQUE: the INSERT is rejected when a row has this title
UniqueViolationNever(tbl, title) == FALSE

UniqueViolation(tbl, title) == title \in TitlesOf(tbl)

InsertRow(tbl, row) ==
    [r \in DOMAIN tbl \cup {row} |->
        IF r \in DOMAIN tbl
        THEN (IF r = row THEN tbl[r] + 1 ELSE tbl[r])
        ELSE 1]

\* DELETE FROM movies WHERE title = :title
DeleteRowsNoCase(tbl, title) ==
    [r \in {x \in DOMAIN tbl : Lower(x.title) # Lower(title)} |-> tbl[r]]

DeleteRows(tbl, title) == [r \in DOMAIN tbl \ RowsWhere(tbl, title) |-> tbl[r]]

\* UPDATE movies SET ... WHERE title = :title, in its three forms
SetFieldsBoth(r, rating, poster_url) ==
    [r EXCEPT !.rating = rating, !.poster_url = poster_url]

SetFields(r, rating, poster_url) ==
    IF rating # None /\ poster_url # None
    THEN [r EXCEPT !.rating = rating, !.poster_url = poster_url]
    ELSE IF rating # None
    THEN [r EXCEPT !.rating = rating]
    ELSE [r EXCEPT !.poster_url = poster_url]

UpdateRows(tbl, title, rating, poster_url) ==
    LET Upd(r) == IF r.title = title THEN SetFields(r, rating, poster_url) ELSE r
    IN  [n \in {Upd(r) : r \in DOMAIN tbl} |->
            Copies(tbl, {r \in DOMAIN tbl : Upd(r) = n})]

----------------------------------------------------------------------------
(* movie_storage_sql.py: the CRUD functions.  Each returns the table it    *)
(* leaves, what it printed (outcome), whether an exception left the        *)
(* function (raised) and, for list_movies, the mapping returned.           *)
(* fault: the engine raises inside the with-block (the transaction is      *)
(* rolled back).                                                           *)

EmptyMapping == [t \in {} |-> 0]

\* { row[0]: {"year": row[1], "rating": row[2], "poster_url": row[3]} for row in movies }
RowsToMapping(tbl) ==
    [t \in TitlesOf(tbl) |->
        LET r == CHOOSE x \in DOMAIN tbl : x.title = t
        IN  [year |-> r.year, rating |-> r.rating, poster_url |-> r.poster_url]]

Result(tbl, outcome, ret) ==
    [table |-> tbl, outcome |-> outcome, raised |-> FALSE, ret |-> ret]

list_movies(tbl, fault) ==
    IF fault
    THEN Result(tbl, "ErrorFetching", EmptyMapping)
    ELSE Result(tbl, "Success", RowsToMapping(tbl))

IsBlank(title) == Strip(title) = <<>>

\* the parameters bound to the INSERT
InsertValuesNoPoster(title, year, rating, poster_url) ==
    Row(title, year, rating, None)

InsertValues(title, year, rating, poster_url) ==
    Row(title, year, rating, poster_url)

\* as the JSON store did: a title already there is overwritten
add_movie_overwrite(tbl, title, year, rating, poster_url, fault) ==
    IF IsBlank(title)
    THEN Result(tbl, "InvalidInput", EmptyMapping)
    ELSE IF fault
    THEN Result(tbl, "StorageFault", EmptyMapping)
    ELSE Result(InsertRow(DeleteRows(tbl, title),
                          InsertValues(title, year, rating, poster_url)),
                "Success", EmptyMapping)

add_movie(tbl, title, year, rating, poster_url, fault) ==
    IF IsBlank(title)
    THEN Result(tbl, "InvalidInput", EmptyMapping)
    ELSE IF fault
    THEN Result(tbl, "StorageFault", EmptyMapping)
    ELSE IF UniqueViolation(tbl, title)
    THEN Result(tbl, "DuplicateTitle", EmptyMapping)
    ELSE Result(InsertRow(tbl, InsertValues(title, year, rating, poster_url)),
                "Success", EmptyMapping)

delete_movie(tbl, title, fault) ==
    IF fault
    THEN Result(tbl, "StorageFault", EmptyMapping)
    ELSE IF Copies(tbl, RowsWhere(tbl, title)) > 0
    THEN Result(DeleteRows(tbl, title), "Success", EmptyMapping)
    ELSE Result(DeleteRows(tbl, title), "NotFound", EmptyMapping)

NothingToUpdateNever(rating, poster_url) == FALSE

NothingToUpdate(rating, poster_url) == rating = None /\ poster_url = None

update_movie(tbl, title, rating, poster_url, fault) ==
    IF NothingToUpdate(rating, poster_url)
    THEN Result(tbl, "NoOp", EmptyMapping)
    ELSE IF fault
    THEN Result(tbl, "StorageFault", EmptyMapping)
    ELSE IF Copies(tbl, RowsWhere(tbl, title)) > 0
    THEN Result(UpdateRows(tbl, title, rating, poster_url), "Success", EmptyMapping)
    ELSE Result(UpdateRows(tbl, title, rating, poster_url), "NotFound", EmptyMapping)

----------------------------------------------------------------------------
(* The store called directly.  last records the call or command just made: *)
(* its arguments, what it printed, the store functions it called, the      *)
(* table before it (pre), the row an INSERT wrote (inserted) and, for a    *)
(* delete, the add that came right before it on the same title (prev).     *)

NoArgs == [rating |-> None, poster_url |-> None]

NoLookup == [error |-> "none", Response |-> None]

Call(op, title, args, fault, res, pre, inserted, prev) ==
    [op |-> op, title |-> title, args |-> args, fault |-> fault,
     outcome |-> res.outcome, raised |-> res.raised, ret |-> res.ret,
     pre |-> pre, inserted |-> inserted, prev |-> prev,
     lookup |-> NoLookup, called |-> {op}]

Init ==
    /\ table = EmptyTable
    /\ last = Call("none", TEmpty, NoArgs, FALSE,
                   Result(EmptyTable, "none", EmptyMapping), EmptyTable, None, None)

ListMovies(fault) ==
    LET res == list_movies(table, fault)
    IN  /\ table' = res.table
        /\ last' = Call("list", TEmpty, NoArgs, fault, res, table, None, None)

AddMovie(title, year, rating, poster_url, fault) ==
    LET res == add_movie(table, title, year, rating, poster_url, fault)
    IN  /\ table' = res.table
        /\ last' = Call("add", title, NoArgs, fault, res, table,
                        IF res.outcome = "Success"
                        THEN Some([title |-> title, year |-> year,
                                   rating |-> rating, poster_url |-> poster_url])
                        ELSE None,
                        None)

DeleteMovie(title, fault) ==
    LET res == delete_movie(table, title, fault)
    IN  /\ table' = res.table
        /\ last' = Call("delete", title, NoArgs, fault, res, table, None,
                        IF last.op = "add" /\ last.title = title
                        THEN Some([before |-> last.pre, outcome |-> last.outcome,
                                   fault |-> last.fault])
                        ELSE None)

UpdateMovie(title, rating, poster_url, fault) ==
    LET res == update_movie(table, title, rating, poster_url, fault)
    IN  /\ table' = res.table
        /\ last' = Call("update", title,
                        [rating |-> rating, poster_url |-> poster_url],
                        fault, res, table, None, None)

Next ==
    \/ \E f \in Faults : ListMovies(f)
    \/ \E t \in Titles, y \in Years, r \in Ratings, p \in Posters, f \in Faults :
          AddMovie(t, y, r, p, f)
    \/ \E t \in Titles, f \in Faults : DeleteMovie(t, f)
    \/ \E t \in Titles, r \in Ratings, p \in Posters, f \in Faults :
          UpdateMovie(t, r, p, f)

Spec == Init /\ [][Next]_vars

----------------------------------------------------------------------------
(* Filmprojekt.py: the commands of the menu that change the table.  A      *)
(* command reads what the user types and, for an add, the answer of the    *)
(* metadata lookup; every call of the store may meet an engine fault.      *)

\* what the user may type at a prompt
TypedTitles == {<<" ">>, <<"-">>, <<" ", "u", "p", " ">>, <<"U", "p">>}

TypedRatings == {<<"7">>, <<"0">>, <<"1", "1">>, <<"x">>}

TypedConfirms == {<<" ", "Y">>, <<"n">>}

\* at most this many answers to the rating prompt of one add
MaxInputs == 2

RECURSIVE SeqsUpTo(_, _)
SeqsUpTo(S, n) ==
    IF n = 0 THEN {<<>>}
    ELSE LET shorter == SeqsUpTo(S, n - 1)
         IN  shorter \cup {<<x>> \o q : x \in S, q \in {t \in shorter : Len(t) = n - 1}}

\* the metadata lookup: the request fails (error), or the body is not JSON,
\* or it is JSON but no object, or it is a JSON object with some of the keys
\* the command reads
Json(response, title, year, imdbRating, poster) ==
    [error |-> "none", Response |-> response, Title |-> title, Year |-> year,
     imdbRating |-> imdbRating, Poster |-> poster]

Failure(error) ==
    [error |-> error, Response |-> None, Title |-> None, Year |-> None,
     imdbRating |-> None, Poster |-> None]

RequestErrors == {"ConnectionError", "Timeout", "HTTPError", "RequestException"}

Lookups ==
    {Failure(e) : e \in RequestErrors \cup {"InvalidJSON", "NotAnObject"}}
    \cup
    { Json(Some("False"), None, None, None, None),
      Json(Some("True"), Some(TUp), Some(<<"2", "0", "1", "0">>),
           Some(<<"8">>), Some("p.jpg")),
      Json(Some("True"), Some(TUp), Some(<<"1", "9", "9", "9", EnDash, "2", "0", "0", "1">>),
           Some(<<"1", "1">>), None),
      Json(Some("True"), Some(TGo), Some(<<"N", "/", "A">>),
           Some(<<"N", "/", "A">>), Some("p.jpg")),
      Json(Some("True"), None, None, Some(<<"0">>), None),
      Json(None, None, Some(<<"x">>), Some(<<"x">>), None) }

\* the title prompt: blank input and input without a word character are
\* asked again
TitleAccepted(title) == title # <<>> /\ HasWordChar(title)

\* requests.get / raise_for_status raised
RequestFailed(lookup) == lookup.error \in RequestErrors

\* response.json() raised ValueError
JsonInvalid(lookup) == lookup.error = "InvalidJSON"

\* data is a list, a string or a number: data.get raises AttributeError,
\* which nothing catches; the command ends there
JsonNotObject(lookup) == lookup.error = "NotAnObject"

\* data.get("Response") == "False"
NotInOMDbNever(lookup) == FALSE

NotInOMDb(lookup) == lookup.Response = Some("False")

\* int(year_raw.split(EnDash)[0]), 0 on ValueError
ParseYear(lookup) ==
    LET year_raw == IF lookup.Year = None THEN <<>> ELSE Get(lookup.Year)
        n == ParseNumber(BeforeFirst(year_raw, EnDash))
    IN  IF n = None THEN 0 ELSE Get(n)

\* float(imdbRating) unless it is None or "N/A", None on ValueError
ParseRating(lookup) ==
    IF lookup.imdbRating = None \/ lookup.imdbRating = Some(<<"N", "/", "A">>)
    THEN None
    ELSE ParseNumber(Get(lookup.imdbRating))

InRange(r) == 0 <= r /\ r <= 10

\* while movie_rating is None or movie_rating == 0: ask the user.
\* done is FALSE when the answers run out with the loop still asking.
RECURSIVE AskRating(_, _)
AskRating(rating, inputs) ==
    IF rating # None /\ Get(rating) # 0
    THEN [rating |-> rating, rest |-> inputs, done |-> TRUE]
    ELSE IF inputs = <<>>
    THEN [rating |-> rating, rest |-> inputs, done |-> FALSE]
    ELSE LET v == ParseNumber(Strip(Head(inputs)))
         IN  IF v = None
             THEN AskRating(rating, Tail(inputs))
             ELSE IF InRange(Get(v))
             THEN AskRating(v, Tail(inputs))
             ELSE AskRating(None, Tail(inputs))

CliResult(tbl, outcome, called, inserted) ==
    [table |-> tbl, outcome |-> outcome, called |-> called, inserted |-> inserted,
     raised |-> FALSE, done |-> TRUE]

Crashed(tbl, exception) ==
    [table |-> tbl, outcome |-> exception, called |-> {}, inserted |-> None,
     raised |-> TRUE, done |-> TRUE]

Asking(tbl) ==
    [table |-> tbl, outcome |-> "asking", called |-> {}, inserted |-> None,
     raised |-> FALSE, done |-> FALSE]

\* add_movie of the menu; typed is the title the prompt accepted
cli_add_movie(tbl, typed, lookup, inputs, faultList, faultAdd) ==
    LET title == Strip(typed)
    IN
    IF RequestFailed(lookup) THEN CliResult(tbl, lookup.error, {}, None)
    ELSE IF JsonInvalid(lookup) THEN CliResult(tbl, "InvalidJSON", {}, None)
    ELSE IF JsonNotObject(lookup) THEN Crashed(tbl, "AttributeError")
    ELSE IF NotInOMDb(lookup) THEN CliResult(tbl, "NotInOMDb", {}, None)
    ELSE
    LET movie_title == IF lookup.Title = None THEN title ELSE Get(lookup.Title)
        movie_year == ParseYear(lookup)
        poster_url == IF lookup.Poster = None THEN Some("") ELSE lookup.Poster
        listed == list_movies(tbl, faultList)
        movies == listed.ret
    IN
    IF listed.raised
    THEN CliResult(tbl, "ErrorAccessing", {"list_movies"}, None)
    ELSE IF Lower(movie_title) \in {Lower(m) : m \in DOMAIN movies}
    THEN CliResult(tbl, "AlreadyExists", {"list_movies"}, None)
    ELSE
    LET asked == AskRating(ParseRating(lookup), inputs)
        added == add_movie(tbl, movie_title, movie_year, asked.rating,
                           poster_url, faultAdd)
    IN
    IF ~asked.done \/ asked.rest # <<>> THEN Asking(tbl)
    ELSE IF added.raised
    THEN CliResult(added.table, "FailedToAdd", {"list_movies", "add_movie"}, None)
    ELSE CliResult(added.table, "Added", {"list_movies", "add_movie"},
                   IF added.outcome = "Success"
                   THEN Some([title |-> movie_title, year |-> movie_year,
                              rating |-> asked.rating, poster_url |-> poster_url])
                   ELSE None)

\* delete_movie of the menu
cli_delete_movie(tbl, typed, faultList, faultDelete) ==
    LET title == Strip(typed)
        movies == list_movies(tbl, faultList).ret
    IN  IF title \in DOMAIN movies
        THEN CliResult(delete_movie(tbl, title, faultDelete).table, "Deleted",
                       {"list_movies", "delete_movie"}, None)
        ELSE CliResult(tbl, "DoesNotExist", {"list_movies"}, None)

\* update_movie_rating of the menu
cli_update_movie_rating(tbl, typed, typedRating, typedConfirm, faultList, faultUpdate) ==
    LET title == Strip(typed)
        movies == list_movies(tbl, faultList).ret
        new_rating == ParseNumber(typedRating)
    IN  IF title \notin DOMAIN movies
        THEN CliResult(tbl, "DoesNotExist", {"list_movies"}, None)
        ELSE IF new_rating = None \/ ~InRange(Get(new_rating))
        THEN CliResult(tbl, "InvalidRating", {"list_movies"}, None)
        ELSE IF Lower(Strip(typedConfirm)) # <<"y">>
        THEN CliResult(tbl, "Cancelled", {"list_movies"}, None)
        ELSE CliResult(update_movie(tbl, title, new_rating, None, faultUpdate).table,
                       "Updated", {"list_movies", "update_movie"}, None)

\* of a command, last keeps what it printed, the store functions it called,
\* the answer of the lookup and the table before it
Command(op, lookup, res, pre) ==
    [op |-> op, title |-> TEmpty, args |-> NoArgs, fault |-> FALSE,
     outcome |-> res.outcome, raised |-> res.raised, ret |-> EmptyMapping,
     pre |-> pre, inserted |-> res.inserted, prev |-> None,
     lookup |-> [error |-> lookup.error, Response |-> lookup.Response],
     called |-> res.called]

CliAddMovie(typed, lookup, inputs, faultList, faultAdd) ==
    LET res == cli_add_movie(table, typed, lookup, inputs, faultList, faultAdd)
    IN  /\ TitleAccepted(Strip(typed))
        /\ res.done
        /\ table' = res.table
        /\ last' = Command("cli_add", lookup, res, table)

CliDeleteMovie(typed, faultList, faultDelete) ==
    LET res == cli_delete_movie(table, typed, faultList, faultDelete)
    IN  /\ table' = res.table
        /\ last' = Command("cli_delete", NoLookup, res, table)

CliUpdateMovieRating(typed, typedRating, typedConfirm, faultList, faultUpdate) ==
    LET res == cli_update_movie_rating(table, typed, typedRating, typedConfirm,
                                       faultList, faultUpdate)
    IN  /\ table' = res.table
        /\ last' = Command("cli_update", NoLookup, res, table)

\* what one add reads after the title: the answer of the lookup and, when
\* the lookup did not fail, the outcome of the two store calls and the
\* answers that end the rating prompt (none when the looked-up rating
\* needs no prompt)
LookupAborts(x) ==
    RequestFailed(x) \/ JsonInvalid(x) \/ JsonNotObject(x) \/ NotInOMDb(x)

AddInputs ==
    {[lookup |-> l, inputs |-> <<>>, faultList |-> FALSE, faultAdd |-> FALSE] :
        l \in {x \in Lookups : LookupAborts(x)}}
    \cup
    UNION {
        {[lookup |-> l, inputs |-> q, faultList |-> f1, faultAdd |-> f2] :
            q \in {a \in SeqsUpTo(TypedRatings, MaxInputs) :
                      LET asked == AskRating(ParseRating(l), a)
                      IN  asked.done /\ asked.rest = <<>>},
            f1 \in Faults, f2 \in Faults} :
        l \in {x \in Lookups : ~LookupAborts(x)}}

NextCli ==
    \/ \E typed \in TypedTitles, i \in AddInputs :
          CliAddMovie(typed, i.lookup, i.inputs, i.faultList, i.faultAdd)
    \/ \E typed \in TypedTitles, f1 \in Faults, f2 \in Faults :
          CliDeleteMovie(typed, f1, f2)
    \/ \E typed \in TypedTitles, r \in TypedRatings, c \in TypedConfirms,
          f1 \in Faults, f2 \in Faults :
          CliUpdateMovieRating(typed, r, c, f1, f2)

SpecCli == Init /\ [][NextCli]_vars

----------------------------------------------------------------------------
(* Properties of the store, checked under Spec *)

NonBlank(title) == \E i \in DOMAIN title : title[i] # " "

Fields(r) == [year |-> r.year, rating |-> r.rating, poster_url |-> r.poster_url]

\* what listAll() returns: the mapping of a read that meets no fault
ListAll(tbl) == list_movies(tbl, FALSE).ret

\* C1: add(t, ...) of a title t already present, whatever the other
\* arguments, reports DuplicateTitle (when the engine works) and leaves
\* every record of the table, the one of t included, as it was.
C1_DuplicateAddRejected ==
    (last.op = "add" /\ last.title \in TitlesOf(last.pre))
        => /\ table = last.pre
           /\ ~last.fault => last.outcome = "DuplicateTitle"

C1_Witness ==
    /\ last.op = "add"
    /\ ~last.fault
    /\ last.title \in TitlesOf(last.pre)
    /\ last.outcome = "DuplicateTitle"
    /\ Cardinality(DOMAIN table) = 2

\* C2: no two records of the table have the same exact title, and a title
\* that differs from a stored one only in letter case is a distinct key: its
\* add succeeds and both records are in the table afterwards.
C2_TitlesUniqueCaseSensitive ==
    /\ \A r \in DOMAIN table : table[r] = 1
    /\ \A r1, r2 \in DOMAIN table : r1.title = r2.title => r1 = r2
    /\ (/\ last.op = "add"
        /\ ~last.fault
        /\ last.title \notin TitlesOf(last.pre)
        /\ \E r \in DOMAIN last.pre : Lower(r.title) = Lower(last.title))
          => /\ last.outcome = "Success"
             /\ TitlesOf(table) = TitlesOf(last.pre) \cup {last.title}

C2_Witness ==
    /\ last.op = "add"
    /\ last.outcome = "Success"
    /\ {TUp, Tup} \subseteq TitlesOf(table)
    /\ Cardinality(DOMAIN table) = 2

\* C3: update of an existing title t sets the rating when a rating is
\* given and the poster_url when a poster_url is given, to the values given;
\* the field not given and the year of t, and every record other than t,
\* are unchanged.
C3_UpdateTouchesOnlyGivenFields ==
    (/\ last.op = "update"
     /\ ~last.fault
     /\ last.title \in TitlesOf(last.pre)
     /\ (last.args.rating # None \/ last.args.poster_url # None))
        => /\ last.outcome = "Success"
           /\ TitlesOf(table) = TitlesOf(last.pre)
           /\ \A r \in DOMAIN table : table[r] = 1
           /\ \A old \in DOMAIN last.pre :
                 IF old.title = last.title
                 THEN \E new \in DOMAIN table :
                         /\ new.title = old.title
                         /\ new.year = old.year
                         /\ new.rating = (IF last.args.rating # None
                                          THEN last.args.rating ELSE old.rating)
                         /\ new.poster_url = (IF last.args.poster_url # None
                                              THEN last.args.poster_url
                                              ELSE old.poster_url)
                 ELSE old \in DOMAIN table

C3_Witness ==
    /\ last.op = "update"
    /\ last.outcome = "Success"
    /\ last.args.rating # None
    /\ last.args.poster_url = None
    /\ Cardinality(DOMAIN table) = 2
    /\ \E old \in DOMAIN last.pre, new \in DOMAIN table :
          /\ old.title = last.title
          /\ new.title = last.title
          /\ old.rating # new.rating
          /\ new.poster_url # None
          /\ new.poster_url = old.poster_url

\* C4: update with neither a rating nor a poster_url reports NoOp for every
\* title, in the table or not, and leaves the table unchanged.
C4_UpdateNothingIsNoOp ==
    (last.op = "update" /\ last.args.rating = None /\ last.args.poster_url = None)
        => (last.outcome = "NoOp" /\ table = last.pre)

C4_Witness ==
    /\ last.op = "update"
    /\ last.args.rating = None
    /\ last.args.poster_url = None
    /\ last.outcome = "NoOp"
    /\ last.title \in TitlesOf(table)
    /\ \E r \in DOMAIN table : r.title = last.title /\ r.poster_url # None

\* C5: delete(t) of a title that matches no record exactly, a title that
\* differs from a stored one only in letter case included, raises nothing,
\* leaves the table unchanged and (when the engine works) reports NotFound.
C5_DeleteMissingIsNotFound ==
    (last.op = "delete" /\ last.title \notin TitlesOf(last.pre))
        => /\ ~last.raised
           /\ table = last.pre
           /\ ~last.fault => last.outcome = "NotFound"

C5_Witness ==
    /\ last.op = "delete"
    /\ ~last.fault
    /\ last.outcome = "NotFound"
    /\ last.title \notin TitlesOf(last.pre)
    /\ \E r \in DOMAIN last.pre : Lower(r.title) = Lower(last.title)

\* C6: after a successful add(t, year, rating, poster_url) of a non-blank
\* title t not in the table, listAll() is the mapping before the add
\* extended with the one entry t -> {year, rating, poster_url} of the
\* values passed, absent values included.
C6_AddThenListShowsRecord ==
    (/\ last.op = "add"
     /\ last.outcome = "Success"
     /\ NonBlank(last.title)
     /\ last.title \notin TitlesOf(last.pre))
        => /\ last.inserted # None
           /\ LET new == Get(last.inserted)
                  before == ListAll(last.pre)
              IN  /\ new.title = last.title
                  /\ ListAll(table) =
                        [t \in DOMAIN before \cup {new.title} |->
                            IF t = new.title THEN Fields(new) ELSE before[t]]

C6_Witness ==
    /\ last.op = "add"
    /\ last.outcome = "Success"
    /\ last.pre # EmptyTable
    /\ Get(last.inserted).rating = None
    /\ Get(last.inserted).poster_url # None
    /\ ListAll(table)[last.title] = Fields(Get(last.inserted))

\* C7 as stated: for every title t not in the table, add(t, ...) followed by
\* delete(t) both succeed and listAll() is again the mapping before the add.
C7_Original ==
    (/\ last.op = "delete"
     /\ ~last.fault
     /\ last.prev # None
     /\ ~Get(last.prev).fault
     /\ last.title \notin TitlesOf(Get(last.prev).before))
        => /\ Get(last.prev).outcome = "Success"
           /\ last.outcome = "Success"
           /\ ListAll(table) = ListAll(Get(last.prev).before)

\* C7: for every non-blank title t not in the table, add(t, ...) followed
\* by delete(t) both succeed (when the engine works) and listAll() is again
\* the mapping before the add; from the empty table it is the empty mapping.
C7_AddThenDeleteRestores ==
    (/\ last.op = "delete"
     /\ ~last.fault
     /\ last.prev # None
     /\ ~Get(last.prev).fault
     /\ NonBlank(last.title)
     /\ last.title \notin TitlesOf(Get(last.prev).before))
        => /\ Get(last.prev).outcome = "Success"
           /\ last.outcome = "Success"
           /\ ListAll(table) = ListAll(Get(last.prev).before)
           /\ Get(last.prev).before = EmptyTable => ListAll(table) = EmptyMapping

C7_Witness ==
    /\ last.op = "delete"
    /\ last.outcome = "Success"
    /\ last.prev # None
    /\ Get(last.prev).outcome = "Success"
    /\ Get(last.prev).before # EmptyTable
    /\ \E r \in DOMAIN table : Lower(r.title) = Lower(last.title)
    /\ table = Get(last.prev).before

\* C9: a read of the table that meets a storage fault surfaces it: what
\* listAll() gives its caller differs from what it gives for an empty table.
C9_ReadFaultSurfaced ==
    (last.op = "list" /\ last.fault)
        => (last.raised \/ last.ret # ListAll(EmptyTable))

----------------------------------------------------------------------------
(* Properties of the commands, checked under SpecCli *)

LookupFailure(l) == l.error # "none" \/ l.Response = Some("False")

\* C8: an add whose metadata lookup fails in any way (request error,
\* timeout, HTTP error, body that is not JSON or no JSON object, movie not
\* found) calls no mutating function of the store and leaves the table as
\* it was.
C8_FailedLookupAbortsAdd ==
    (last.op = "cli_add" /\ LookupFailure(last.lookup))
        => /\ table = last.pre
           /\ last.called \cap {"add_movie", "delete_movie", "update_movie"} = {}

C8_Witness ==
    /\ last.op = "cli_add"
    /\ last.lookup.Response = Some("False")
    /\ table # EmptyTable
    /\ table = last.pre

\* C10: every rating stored by the add and update-rating commands lies in
\* [0, 10], whatever the lookup answers and the user types.
C10_StoredRatingsInRange ==
    \A r \in DOMAIN table :
        r.rating # None => (0 <= Get(r.rating) /\ Get(r.rating) <= 10)

\* C11: no two stored titles are equal when letter case is ignored, in
\* every state the add, delete and update-rating commands can reach: an add
\* whose looked-up title matches a stored one but for case does not reach
\* the store.
C11_NoTitlesEqualIgnoringCase ==
    /\ \A r \in DOMAIN table : table[r] = 1
    /\ \A r1, r2 \in DOMAIN table :
          Lower(r1.title) = Lower(r2.title) => r1 = r2

====
